---- MODULE Spec2Model ----
(***************************************************************************)
(* A model of the MeshCapade SDK's Avatar class (src/meshcapade/avatar.py) *)
(* and of the request executor it inherits (src/meshcapade/client.py).     *)
(*                                                                         *)
(* One Avatar object is modelled.  Its methods are run one at a time       *)
(* (the SDK is synchronous); a method that loops (download_avatar's        *)
(* polling loop, _upload_images' loop over the paths) is one action per    *)
(* loop iteration, the remote service's answer to each request being the   *)
(* action's input.                                                         *)
(*                                                                         *)
(* The form front end (src/app.py), which sets the process-wide API key    *)
(* and makes an Avatar of its own for every request, is modelled by        *)
(* itself, with two requests in hand at a time.                            *)
(***************************************************************************)
EXTENDS Integers, Sequences, FiniteSets, TLC

----------------------------------------------------------------------------
(* Bounds of the model *)

\* the largest max_retries a download_avatar call is given
MaxRetries == 3
\* the longest image_paths list a create_avatar_from_image call is given
MaxImages == 2
\* the longest `included` array of a status response
MaxIncluded == 2

----------------------------------------------------------------------------
(* Python values *)

\* An optional value: None is the empty tuple, a value v is <<v>>.
None == <<>>
Some(v) == <<v>>

\* bool(x) of an optional string: None and "" are falsy.
Truthy(x) == x # None /\ x[1] # ""

\* mutant of Or: the operands change places
OrSecondFirst(a, b) == IF Truthy(b) THEN b ELSE a
\* Python's `a or b` on optional strings.
Or(a, b) == IF Truthy(a) THEN a ELSE b

\* The sequences over S of length 0..n.
SeqUpTo(S, n) == UNION {[1..k -> S] : k \in 0..n}

----------------------------------------------------------------------------
(* Input domains *)

\* identifiers the server hands out
Ids == {"a1", "a2"}
\* values assigned to Avatar.name: nothing checks them
NameInputs == {None, Some(""), Some("Emma")}
\* values assigned to Avatar.height and to Avatar.weight; int |-> FALSE is a
\* value that is not an int (a str, a float), whose v is not looked at
NumberInputs == {[int |-> TRUE, v |-> 170], [int |-> TRUE, v |-> 0],
                 [int |-> TRUE, v |-> -3], [int |-> FALSE, v |-> 170]}
WeightInputs == {[int |-> TRUE, v |-> 60], [int |-> TRUE, v |-> 0],
                 [int |-> TRUE, v |-> -3], [int |-> FALSE, v |-> 60]}
\* values assigned to Avatar.gender
GenderInputs == {None, Some("male"), Some("female"), Some("Male")}

\* download_avatar's arguments
AvatarIdArgs == {None, Some(""), Some("a1")}
Filenames == {"avatar.obj", "out.obj"}
PollingIntervals == {2, 5}

\* HTTP statuses the service answers with: below 400, and 400 and above
OkStatuses == {200, 201}
ErrorStatuses == {401, 404, 500}
\* values of data.attributes.state; "" stands for a response without it
States == {"", "PROCESSING", "READY", "FAILED", "ERROR"}
\* entries of a status response's `included` array: path is
\* attributes.url.path, "" when it is empty or one of the three keys is missing
IncludedItems == {[type |-> "asset", path |-> "u1"],
                  [type |-> "asset", path |-> "u2"],
                  [type |-> "asset", path |-> ""],
                  [type |-> "image", path |-> "u3"]}
\* bodies of the asset download
Contents == {"mesh1", "mesh2"}

\* image paths: the basename and whether os.path.exists holds of the path
ImagePaths == {[file |-> "a.jpg", exists |-> TRUE],
               [file |-> "b.jpg", exists |-> TRUE],
               [file |-> "m.jpg", exists |-> FALSE]}

----------------------------------------------------------------------------
(* The JSON envelope of a response, as far as the SDK looks into it.       *)
(*   data    "data" in response                                            *)
(*   id      response["data"]["id"], None when the key is missing          *)
(*   upload  response["data"]["links"]["upload"], None when "links" or     *)
(*           "upload" is missing                                           *)
(*   state   response["data"]["attributes"]["state"], "" when missing      *)
(*   included response["included"], <<>> when missing                      *)

Envelope(d, i, u, s, inc) ==
    [data |-> d, id |-> i, upload |-> u, state |-> s, included |-> inc]

\* what make_request returns for a response that is not JSON: a dict with the
\* keys status_code, content and headers, so none of the keys above
RawDescriptor == Envelope(FALSE, None, None, "", <<>>)

\* An HTTP exchange: fault is a transport fault (requests raises a
\* RequestException), else the response has a status and a body that is
\* JSON (json) or not.
Response(f, st, j, b) == [fault |-> f, status |-> st, json |-> j, body |-> b]

\* The answers to a request whose JSON bodies are drawn from Bodies: a
\* transport fault, an error status (whose body the SDK only prints), a
\* status below 400 with a JSON body, or one with a body that is not JSON.
Responses(Bodies) ==
    {Response(TRUE, 0, FALSE, RawDescriptor)}
    \cup {Response(FALSE, st, FALSE, RawDescriptor) : st \in ErrorStatuses}
    \cup {Response(FALSE, st, TRUE, b) : st \in OkStatuses, b \in Bodies}
    \cup {Response(FALSE, 200, FALSE, RawDescriptor)}

\* no answer yet
NoReply == Response(FALSE, 0, FALSE, RawDescriptor)

\* Further answers, which list_avatars is tried with: statuses next to the
\* 400 mark and other error statuses, and a 200 whose body is declared as
\* JSON and cannot be decoded: response.json() raises requests' own
\* JSONDecodeError, a RequestException, so it counts as a fault
EdgeStatuses == {204, 399, 400, 403, 503}
EdgeResponses ==
    {Response(FALSE, st, FALSE, RawDescriptor) : st \in EdgeStatuses}
    \cup {Response(TRUE, 200, TRUE, RawDescriptor)}

----------------------------------------------------------------------------
(* Outcomes of a call: it returns a value or raises an exception.          *)

NoResult == [kind |-> "none", exc |-> "", status_code |-> 0, state |-> "",
             budget |-> 0, value |-> None, body |-> RawDescriptor]
Return(v) == [NoResult EXCEPT !.kind = "return", !.value = v]
Raise(e) == [NoResult EXCEPT !.kind = "raise", !.exc = e]
RaiseStatus(e, c) == [Raise(e) EXCEPT !.status_code = c]
ReturnBody(b) == [NoResult EXCEPT !.kind = "return", !.body = b]

----------------------------------------------------------------------------
(* BaseClient.make_request: one HTTP request, its response mapped to a     *)
(* returned body or a raised exception.                                    *)

\* mutant of MakeRequest: 404 is not told from the other error statuses
MakeRequestNo404(r) ==
    IF r.fault THEN Raise("APIError")
    ELSE IF r.status = 401 THEN Raise("AuthenticationError")
    ELSE IF r.status >= 400 THEN RaiseStatus("APIError", r.status)
    ELSE IF r.json THEN ReturnBody(r.body)
    ELSE ReturnBody(RawDescriptor)
MakeRequest(r) ==
    IF r.fault THEN Raise("APIError")
    ELSE IF r.status = 401 THEN Raise("AuthenticationError")
    ELSE IF r.status = 404 THEN Raise("ResourceNotFoundError")
    ELSE IF r.status >= 400 THEN RaiseStatus("APIError", r.status)
    ELSE IF r.json THEN ReturnBody(r.body)
    ELSE ReturnBody(RawDescriptor)

\* The requests a call issues, as recorded in the log `net`.
\*   auth    the request carries the Authorization: Bearer header
\*   body    the JSON body sent, NoBody when there is none
\*           shape "images": {avatarname, height, weight, gender}
\*           shape "measurements": {name, gender, measurements:
\*                                  {Height, Weight}}
NoBody == [shape |-> "", name |-> None, gender |-> None,
           height |-> None, weight |-> None]
Body(s, n, g, h, w) == [shape |-> s, name |-> n, gender |-> g,
                        height |-> h, weight |-> w]
Request(m, t, a, b) == [method |-> m, target |-> t, auth |-> a, body |-> b]

\* make_request(method, endpoint, data): the request it puts on the wire
ApiRequest(m, t, b) == Request(m, t, TRUE, b)
\* mutant of DirectRequest: the bearer header goes out to the URL as well
DirectRequestWithBearer(m, url) == Request(m, <<url>>, TRUE, NoBody)
\* requests.put / requests.get on a pre-signed or download URL
DirectRequest(m, url) == Request(m, <<url>>, FALSE, NoBody)

----------------------------------------------------------------------------
(* State *)

VARIABLES
    name, height, weight, gender,   \* Avatar._name, _height, _weight, _gender
    avatar_id,                      \* Avatar.avatar_id
    pc,                             \* where the running call stands
    op,                             \* the method last called
    args,                           \* the running call's arguments
    retry_count,                    \* download_avatar's retry_count
    polls,                          \* the status responses download_avatar decoded
    sleeps,                         \* the time.sleep calls of the call, in order
    writes,                         \* the files the call wrote, in order
    fetched,                        \* the bodies the download URL answered with
    create_reply,                   \* what the create POST was answered with
    reply_id,                       \* the data.id of that answer, None without
    fit_reply,                      \* what the fit-to-images POST was answered with
    avatar_data,                    \* create_avatar_from_image's avatar_data: its id
    image_index,                    \* _upload_images: index of the next path
    upload_results,                 \* _upload_images' upload_results list
    outcomes,                       \* what happened to each path processed
    answers,                        \* what the requests made for each path
                                    \* processed were answered with
    net,                            \* the HTTP requests of the call, in order
    result,                         \* how the last call ended
    reply,                          \* get_avatar, delete_avatar, list_avatars:
                                    \* what the call's request was answered with
    API_KEY,                        \* meshcapade.API_KEY
    handler                         \* app.py: the requests being handled

entity == <<name, height, weight, gender, avatar_id>>
download == <<retry_count, polls, sleeps, writes, fetched>>
upload == <<create_reply, reply_id, fit_reply, avatar_data, image_index,
            upload_results, outcomes, answers>>
\* the one Avatar of Spec and SpecDownload with its running call, and the
\* state of the form front end
call == <<name, height, weight, gender, avatar_id, pc, op, args, retry_count,
          polls, sleeps, writes, fetched, create_reply, reply_id, fit_reply,
          avatar_data, image_index, upload_results, outcomes, answers,
          net, result, reply>>
app == <<API_KEY, handler>>
vars == <<name, height, weight, gender, avatar_id, pc, op, args, retry_count,
          polls, sleeps, writes, fetched, create_reply, reply_id, fit_reply, avatar_data,
          image_index, upload_results, outcomes, answers, net, result,
          reply, API_KEY, handler>>

\* API keys submitted with the form
ApiKeys == {"k1", "k2"}
\* the threads of the form front end, one request each at a time
Handlers == {1, 2}
\* a thread between two requests
\*   key      the api_key field of the form
\*   api_key  the api_key of the Avatar the handler made, None before
\*   sent     the API requests of that Avatar with the key each carried
\*   status   the status the handler answers with, 0 before
NoHandler == [pc |-> "waiting", key |-> None, api_key |-> None,
              sent |-> <<>>, status |-> 0]

\* the arguments of a call; a method reads the ones it has
\*   passed_id     avatar_id as the caller passed it; avatar_id is the local
\*                 after `avatar_id = avatar_id or self.avatar_id`
\*   value, number the value assigned by a setter: to name or gender, and to
\*                 height or weight
\*   name, gender, measurements   create_avatar_from_measurements' arguments
NoArgs == [avatar_id |-> None, filename |-> "", polling_interval |-> 0,
           max_retries |-> 0, image_paths |-> <<>>,
           passed_id |-> None, value |-> None,
           number |-> [int |-> FALSE, v |-> 0],
           name |-> None, gender |-> None, measurements |-> None]

\* Avatar.__init__, in a script that has set the API key (src/main.py); no
\* request of the form front end is part of Spec and SpecDownload
Init ==
    /\ name = None /\ height = None /\ weight = None /\ gender = None
    /\ avatar_id = None
    /\ pc = "idle" /\ op = "none" /\ args = NoArgs
    /\ retry_count = 0 /\ polls = <<>> /\ sleeps = <<>> /\ writes = <<>>
    /\ fetched = <<>>
    /\ create_reply = "none" /\ reply_id = None
    /\ fit_reply = "none" /\ avatar_data = None
    /\ image_index = 1 /\ upload_results = <<>> /\ outcomes = <<>>
    /\ answers = <<>>
    /\ net = <<>>
    /\ result = NoResult
    /\ reply = NoReply
    /\ API_KEY = Some("k1")
    /\ handler = [h \in Handlers |-> NoHandler]

\* A call begins.  pc is "idle" between calls, "done" when a call has
\* returned or raised and its caller has not gone on yet, and names the loop
\* a call is in otherwise.
Begin(o, a) ==
    /\ pc = "idle"
    /\ op' = o
    /\ args' = a

\* The locals of the loops, before the loops are entered.
FreshLoops ==
    /\ retry_count' = 0 /\ polls' = <<>> /\ sleeps' = <<>> /\ writes' = <<>>
    /\ fetched' = <<>>
    /\ create_reply' = "none" /\ reply_id' = None
    /\ fit_reply' = "none" /\ avatar_data' = None
    /\ image_index' = 1 /\ upload_results' = <<>> /\ outcomes' = <<>>
    /\ answers' = <<>>

\* The caller goes on after a call: the call's locals, its result and the
\* logs kept of it are gone, the Avatar stays.
Finish ==
    /\ pc = "done"
    /\ pc' = "idle" /\ op' = "none" /\ args' = NoArgs
    /\ result' = NoResult
    /\ net' = <<>> /\ reply' = NoReply /\ FreshLoops
    /\ UNCHANGED <<entity, app>>

----------------------------------------------------------------------------
(* The attribute setters *)

\* name.setter
SetName(value) ==
    /\ Begin("name", [NoArgs EXCEPT !.value = value])
    /\ name' = value
    /\ result' = Return(None)
    /\ net' = <<>> /\ reply' = NoReply /\ FreshLoops
    /\ pc' = "done"
    /\ UNCHANGED <<height, weight, gender, avatar_id, app>>

\* mutant of PositiveInt: zero is let through
PositiveIntOrZero(value) == value.int /\ value.v >= 0
\* height.setter / weight.setter: the check both make
PositiveInt(value) == value.int /\ value.v > 0

\* height.setter
SetHeight(value) ==
    /\ Begin("height", [NoArgs EXCEPT !.number = value])
    /\ IF ~PositiveInt(value)
       THEN /\ result' = Raise("ValidationError")
            /\ UNCHANGED height
       ELSE /\ height' = Some(value.v)
            /\ result' = Return(None)
    /\ net' = <<>> /\ reply' = NoReply /\ FreshLoops
    /\ pc' = "done"
    /\ UNCHANGED <<name, weight, gender, avatar_id, app>>

\* weight.setter
SetWeight(value) ==
    /\ Begin("weight", [NoArgs EXCEPT !.number = value])
    /\ IF ~PositiveInt(value)
       THEN /\ result' = Raise("ValidationError")
            /\ UNCHANGED weight
       ELSE /\ weight' = Some(value.v)
            /\ result' = Return(None)
    /\ net' = <<>> /\ reply' = NoReply /\ FreshLoops
    /\ pc' = "done"
    /\ UNCHANGED <<name, height, gender, avatar_id, app>>

\* gender.setter
SetGender(value) ==
    /\ Begin("gender", [NoArgs EXCEPT !.value = value])
    /\ IF value \notin {Some("male"), Some("female")}
       THEN /\ result' = Raise("ValidationError")
            /\ UNCHANGED gender
       ELSE /\ gender' = value
            /\ result' = Return(None)
    /\ net' = <<>> /\ reply' = NoReply /\ FreshLoops
    /\ pc' = "done"
    /\ UNCHANGED <<name, height, weight, avatar_id, app>>

----------------------------------------------------------------------------
(* create_avatar_from_image *)

\* answers to POST avatars/create/from-images and .../from-measurements
CreateBodies ==
    {Envelope(FALSE, None, None, "", <<>>),
     Envelope(TRUE, None, None, "", <<>>)}
    \cup {Envelope(TRUE, Some(i), None, "", <<>>) : i \in Ids}

\* answers to POST avatars/{id}/images
PresignBodies ==
    {Envelope(FALSE, None, None, "", <<>>),
     Envelope(TRUE, Some("img1"), None, "", <<>>),
     Envelope(TRUE, Some("img1"), Some("s3"), "", <<>>),
     Envelope(TRUE, None, Some("s3"), "", <<>>)}

\* answers to the PUT to the pre-signed URL: a transport fault or a status
PutStatuses == {200, 204, 500}
PutResponses ==
    {[fault |-> TRUE, status |-> 0]}
    \cup {[fault |-> FALSE, status |-> st] : st \in PutStatuses}

\* "data" in response and "id" in response["data"]
HasDataId(body) == body.data /\ body.id # None

\* "data", "links" and "upload" are all there
HasUploadLink(body) == body.data /\ body.upload # None

\* the metadata body of the create and the fit-to-images requests
MetadataBody == Body("images", name, gender, height, weight)

\* the entries of upload_results
FailedResult(path, code) ==
    [status |-> "failed", file |-> path.file, image_id |-> None, code |-> code]
SuccessResult(path, image) ==
    [status |-> "success", file |-> path.file, image_id |-> image, code |-> 0]

\* What the create POST was answered with, for the log `create_reply`: an
\* error or fault ("raised"), a body with data.id ("id") or one without.
CreateReply(r) ==
    IF r.fault \/ r.status >= 400 THEN "raised"
    ELSE IF r.json /\ r.body.data /\ r.body.id # None THEN "id"
    ELSE "no_id"

\* The data.id of that answer, for the log `reply_id`.
ReplyId(r) == IF CreateReply(r) = "id" THEN r.body.id ELSE None

\* mutant of InvalidResponse: the raise is missing, the method returns None
InvalidResponseReturnsNone == Return(None)
\* raise APIError("Failed to create avatar ...: Invalid API response")
InvalidResponse == Raise("APIError")

\* mutant of RequiredSet: only the name is checked
RequiredSetNameOnly == name # None
\* the check of the required properties
RequiredSet == name # None /\ height # None /\ weight # None /\ gender # None

\* mutant of StoredId: the id is held back until the call has succeeded
StoredIdPending(body) == Some("pending")
\* self.avatar_id = avatar_data['id']
StoredId(body) == body.id

\* create_avatar_from_image up to the upload step: the check of the
\* properties and _create_empty_avatar; r answers the create POST.
\* _create_empty_avatar returns response["data"] only when it holds an id, so
\* the caller's own test of avatar_data never fails; the upload step and the
\* fit request are both under `if image_paths`.
CreateAvatarFromImage(paths, r) ==
    /\ Begin("create_avatar_from_image", [NoArgs EXCEPT !.image_paths = paths])
    /\ image_index' = 1 /\ upload_results' = <<>> /\ outcomes' = <<>>
    /\ answers' = <<>>
    /\ fit_reply' = "none" /\ reply' = NoReply
    /\ IF ~RequiredSet
       THEN /\ result' = Raise("ValidationError")
            /\ net' = <<>>
            /\ create_reply' = "none" /\ reply_id' = None
            /\ avatar_data' = None
            /\ pc' = "done"
                    /\ UNCHANGED avatar_id
       ELSE LET got == MakeRequest(r)
                req == ApiRequest("POST", <<"avatars", "create", "from-images">>,
                                  MetadataBody)
            IN
            /\ net' = <<req>>
            /\ create_reply' = CreateReply(r) /\ reply_id' = ReplyId(r)
            /\ IF got.kind = "raise"
               THEN /\ result' = got
                    /\ avatar_data' = None
                    /\ pc' = "done"
                    /\ UNCHANGED avatar_id
               ELSE IF ~HasDataId(got.body)
               THEN /\ result' = InvalidResponse
                    /\ avatar_data' = None
                    /\ pc' = "done"
                    /\ UNCHANGED avatar_id
               ELSE /\ avatar_id' = StoredId(got.body)
                    /\ avatar_data' = got.body.id
                    /\ IF paths # <<>>
                       THEN /\ pc' = "uploading"
                            /\ result' = NoResult
                       ELSE /\ pc' = "done"
                            /\ result' = Return(got.body.id)
    /\ UNCHANGED <<name, height, weight, gender, download, app>>

\* The ways one iteration of _upload_images' loop ends.  Each appends to
\* `outcomes` what the path met: no file ("missing"); a pre-signed-URL POST
\* that raised ("presign_raised"), was answered without data.links.upload
\* ("no_link") or with it but without data.id ("no_image_id"); a PUT that
\* raised ("put_fault"), was answered 200 ("put_200") or otherwise
\* ("put_other").

\* the file does not exist: continue
MissingFile(path) ==
    /\ outcomes' = Append(outcomes, "missing")
    /\ image_index' = image_index + 1
    /\ UNCHANGED <<net, upload_results, result, pc>>

\* make_request raised, or presigned_data["data"]["id"] did
UploadRaises(reqs, outcome, raised) ==
    /\ net' = net \o reqs
    /\ outcomes' = Append(outcomes, outcome)
    /\ result' = raised
    /\ pc' = "done"
    /\ UNCHANGED <<image_index, upload_results>>

\* mutant of UploadContinues: a failed image raises APIError
UploadContinuesOnSuccessOnly(reqs, outcome, entry) ==
    IF entry.status = "success"
    THEN /\ net' = net \o reqs
         /\ outcomes' = Append(outcomes, outcome)
         /\ upload_results' = Append(upload_results, entry)
         /\ image_index' = image_index + 1
         /\ UNCHANGED <<result, pc>>
    ELSE UploadRaises(reqs, outcome, Raise("APIError"))

\* an entry is appended to upload_results and the loop goes on
UploadContinues(reqs, outcome, entry) ==
    /\ net' = net \o reqs
    /\ outcomes' = Append(outcomes, outcome)
    /\ upload_results' = Append(upload_results, entry)
    /\ image_index' = image_index + 1
    /\ UNCHANGED <<result, pc>>

\* mutant of ImagesLeft: the loop stops after the first path
ImagesLeftFirstOnly == image_index <= 1
\* for image_path in image_paths: there is a path the loop has not had yet
ImagesLeft == image_index <= Len(args.image_paths)

\* mutant of NoUploadUrl: the PUT goes out all the same, to a default URL
NoUploadUrlPutsAnyway(post, path) ==
    UploadContinues(<<post, DirectRequest("PUT", "s3")>>, "no_link",
                    FailedResult(path, 0))
\* the answer has no data.links.upload: a failed entry, and the next path
NoUploadUrl(post, path) ==
    UploadContinues(<<post>>, "no_link", FailedResult(path, 0))

\* mutant of PutSucceeded: any 2xx status counts
PutSucceededAny2xx(status) == status >= 200 /\ status < 300
\* if s3_response.status_code == 200
PutSucceeded(status) == status = 200

\* For the log `answers`: what the requests of one iteration were answered
\* with, sent being the number of requests the iteration made: the POST
\* for a pre-signed URL by r if it was made, the PUT by put if it was made.
\* Of r the log keeps whether it came with a status below 400, and then
\* its data.links.upload and, next to such a link, its data.id.
Presigned(r) ==
    LET answered == ~r.fault /\ r.status < 400
        link == IF answered /\ r.json /\ r.body.data THEN r.body.upload
                ELSE None
    IN [answered |-> answered, link |-> link,
        image |-> IF link # None THEN r.body.id ELSE None]
Answer(r, put, sent) ==
    [presign |-> IF sent >= 1 THEN Some(Presigned(r)) ELSE None,
     put |-> IF sent >= 2 THEN Some(put) ELSE None]

\* _upload_images: one iteration of the loop over image_paths; r answers
\* the POST for a pre-signed URL, and put the PUT.  (The
\* method's caller passes a list that is not empty, so its early return for
\* an empty list is never taken.)
UploadImage(r, put) ==
    /\ pc = "uploading"
    /\ ImagesLeft
    /\ LET path == args.image_paths[image_index]
           got == MakeRequest(r)
           post == ApiRequest("POST", <<"avatars", avatar_id[1], "images">>, NoBody)
       IN
       IF ~path.exists
       THEN MissingFile(path)
       ELSE IF got.kind = "raise"
       THEN UploadRaises(<<post>>, "presign_raised", got)
       ELSE IF ~HasUploadLink(got.body)
       THEN NoUploadUrl(post, path)
       ELSE IF got.body.id = None
       THEN UploadRaises(<<post>>, "no_image_id", Raise("KeyError"))
       ELSE LET reqs == <<post, DirectRequest("PUT", got.body.upload[1])>> IN
                 IF put.fault
                 THEN UploadRaises(reqs, "put_fault", Raise("ConnectionError"))
                 ELSE IF PutSucceeded(put.status)
                 THEN UploadContinues(reqs, "put_200",
                                      SuccessResult(path, got.body.id))
                 ELSE UploadContinues(reqs, "put_other",
                                      FailedResult(path, put.status))
    /\ answers' = Append(answers, Answer(r, put, Len(net') - Len(net)))
    /\ UNCHANGED <<entity, op, args, download, create_reply, reply_id, fit_reply,
                   avatar_data, reply, app>>

\* What the fit-to-images POST was answered with, for the log `fit_reply`.
FitReply(r) == IF r.fault \/ r.status >= 400 THEN "raised" ELSE "ok"

\* _upload_images returns its list, and _start_fitting_process follows; r
\* answers the fit-to-images POST
StartFittingProcess(r) ==
    /\ pc = "uploading"
    /\ ~ImagesLeft
    /\ LET got == MakeRequest(r)
           req == ApiRequest("POST", <<"avatars", avatar_id[1], "fit-to-images">>,
                             MetadataBody)
       IN
       /\ net' = Append(net, req)
       /\ result' = IF got.kind = "raise" THEN got ELSE Return(avatar_id)
    /\ fit_reply' = FitReply(r)
    /\ pc' = "done"
    /\ UNCHANGED <<entity, op, args, download, create_reply, reply_id,
                   avatar_data,
                   image_index, upload_results, outcomes, answers, reply, app>>

----------------------------------------------------------------------------
(* create_avatar_from_measurements *)

\* the arguments: name, gender, and the measurements mapping (None, or a
\* mapping with Height and Weight)
NameArgs == {None, Some(""), Some("Max")}
GenderArgs == {None, Some("male"), Some("Male")}
MeasurementsArgs == {None, Some([Height |-> 180, Weight |-> 87])}

\* mutant of ValidGender: any gender that is not empty passes
ValidGenderNotEmpty(g) == Truthy(g)
\* avatar_gender in ["male", "female"]
ValidGender(g) == g \in {Some("male"), Some("female")}

\* mutant of DefaultMeasurements: height and weight change places
DefaultMeasurementsSwapped == [Height |-> weight[1], Weight |-> height[1]]
\* the mapping sent when none is passed
DefaultMeasurements == [Height |-> height[1], Weight |-> weight[1]]

\* create_avatar_from_measurements; r answers the POST
CreateAvatarFromMeasurements(n, g, m, r) ==
    LET avatar_name == Or(n, name)
        avatar_gender == Or(g, gender)
        measurements == IF m = None THEN DefaultMeasurements ELSE m[1]
        body == Body("measurements", avatar_name, avatar_gender,
                     Some(measurements.Height), Some(measurements.Weight))
        got == MakeRequest(r)
        req == ApiRequest("POST", <<"avatars", "create", "from-measurements">>,
                          body)
    IN
    /\ Begin("create_avatar_from_measurements",
             [NoArgs EXCEPT !.name = n, !.gender = g, !.measurements = m])
    /\ retry_count' = 0 /\ polls' = <<>> /\ sleeps' = <<>> /\ writes' = <<>>
    /\ fetched' = <<>>
    /\ avatar_data' = None /\ fit_reply' = "none" /\ reply' = NoReply
    /\ image_index' = 1 /\ upload_results' = <<>> /\ outcomes' = <<>>
    /\ answers' = <<>>
    /\ IF \/ ~Truthy(avatar_name)
          \/ ~Truthy(avatar_gender)
          \/ ~ValidGender(avatar_gender)
          \/ (m = None /\ (height = None \/ weight = None))
       THEN /\ result' = Raise("ValidationError")
            /\ net' = <<>>
            /\ create_reply' = "none" /\ reply_id' = None
            /\ UNCHANGED avatar_id
       ELSE /\ net' = <<req>>
            /\ create_reply' = CreateReply(r) /\ reply_id' = ReplyId(r)
            /\ IF got.kind = "raise"
               THEN /\ result' = got
                    /\ UNCHANGED avatar_id
               ELSE IF ~HasDataId(got.body)
               THEN /\ result' = InvalidResponse
                    /\ UNCHANGED avatar_id
               ELSE /\ avatar_id' = got.body.id
                    /\ result' = Return(got.body.id)
    /\ pc' = "done"
    /\ UNCHANGED <<name, height, weight, gender, app>>

----------------------------------------------------------------------------
(* create_predefined_avatar, get_avatar, delete_avatar, list_avatars *)

\* the body create_predefined_avatar sends (of its thirteen measurements the
\* model keeps Height and Weight)
PredefinedBody ==
    Body("measurements", Some("Created from measurements API"),
         Some("female"), Some(180), Some(87))

\* create_predefined_avatar; r answers the POST
CreatePredefinedAvatar(r) ==
    LET got == MakeRequest(r)
        req == ApiRequest("POST", <<"avatars", "create", "from-measurements">>,
                          PredefinedBody)
    IN
    /\ Begin("create_predefined_avatar", NoArgs)
    /\ retry_count' = 0 /\ polls' = <<>> /\ sleeps' = <<>> /\ writes' = <<>>
    /\ fetched' = <<>>
    /\ avatar_data' = None /\ fit_reply' = "none" /\ reply' = NoReply
    /\ image_index' = 1 /\ upload_results' = <<>> /\ outcomes' = <<>>
    /\ answers' = <<>>
    /\ net' = <<req>>
    /\ create_reply' = CreateReply(r) /\ reply_id' = ReplyId(r)
    /\ IF got.kind = "raise"
       THEN /\ result' = got
            /\ UNCHANGED avatar_id
       ELSE IF ~HasDataId(got.body)
       THEN /\ result' = InvalidResponse
            /\ UNCHANGED avatar_id
       ELSE /\ avatar_id' = got.body.id
            /\ result' = Return(got.body.id)
    /\ pc' = "done"
    /\ UNCHANGED <<name, height, weight, gender, app>>

\* answers to GET avatars/{id}, DELETE avatars/{id} and GET avatars, which
\* the three methods hand back unread
AvatarBodies ==
    {Envelope(TRUE, Some(i), None, s, <<>>) :
        i \in Ids, s \in {"PROCESSING", "READY"}}

\* get_avatar and delete_avatar: the identifier is resolved, and one request
\* of the given method is made for it, whose outcome is the call's
AvatarRequest(o, method, aid, r) ==
    LET id == Or(aid, avatar_id) IN
    /\ Begin(o, [NoArgs EXCEPT !.avatar_id = id, !.passed_id = aid])
    /\ IF ~Truthy(id)
       THEN /\ result' = Raise("ValidationError")
            /\ net' = <<>> /\ reply' = NoReply
       ELSE /\ result' = MakeRequest(r)
            /\ net' = <<ApiRequest(method, <<"avatars", id[1]>>, NoBody)>>
            /\ reply' = r
    /\ FreshLoops
    /\ pc' = "done"
    /\ UNCHANGED <<entity, app>>

\* get_avatar
GetAvatar(aid, r) == AvatarRequest("get_avatar", "GET", aid, r)

\* delete_avatar
DeleteAvatar(aid, r) == AvatarRequest("delete_avatar", "DELETE", aid, r)

\* list_avatars (its page and limit go into the query string, which the
\* model does not keep)
ListAvatars(r) ==
    /\ Begin("list_avatars", NoArgs)
    /\ result' = MakeRequest(r)
    /\ net' = <<ApiRequest("GET", <<"avatars">>, NoBody)>>
    /\ reply' = r
    /\ FreshLoops
    /\ pc' = "done"
    /\ UNCHANGED <<entity, app>>

----------------------------------------------------------------------------
(* download_avatar *)

\* answers to the plain GET of the download URL
AssetStatuses == {200, 404, 500}
AssetResponses ==
    {[fault |-> TRUE, status |-> 0, content |-> ""]}
    \cup {[fault |-> FALSE, status |-> st, content |-> c] :
            st \in AssetStatuses, c \in Contents}

\* answers to the status GET; `included` is read under READY only, and is
\* drawn empty with the other states
StatusBodies ==
    {Envelope(TRUE, Some("a1"), None, s, <<>>) : s \in States \ {"READY"}}
    \cup {Envelope(TRUE, Some("a1"), None, "READY", inc) :
            inc \in SeqUpTo(IncludedItems, MaxIncluded)}

\* The loop over `included`: the path of the first entry of type asset whose
\* attributes.url.path is truthy, None when the loop ends without one.
\* mutants of FirstAsset: only the first entry is looked at; the path is
\* not tested for emptiness; the last such entry is taken
FirstAssetHeadOnly(included) ==
    IF included = <<>> THEN None
    ELSE IF Head(included).type = "asset" /\ Head(included).path # ""
         THEN Some(Head(included).path)
         ELSE None
RECURSIVE FirstAssetAnyPath(_)
FirstAssetAnyPath(included) ==
    IF included = <<>> THEN None
    ELSE IF Head(included).type = "asset"
         THEN Some(Head(included).path)
         ELSE FirstAssetAnyPath(Tail(included))

RECURSIVE FirstAssetLast(_)
FirstAssetLast(included) ==
    IF included = <<>> THEN None
    ELSE IF FirstAssetLast(Tail(included)) # None
         THEN FirstAssetLast(Tail(included))
         ELSE IF Head(included).type = "asset" /\ Head(included).path # ""
              THEN Some(Head(included).path)
              ELSE None

RECURSIVE FirstAsset(_)
FirstAsset(included) ==
    IF included = <<>> THEN None
    ELSE IF Head(included).type = "asset" /\ Head(included).path # ""
         THEN Some(Head(included).path)
         ELSE FirstAsset(Tail(included))

\* What a status response holds, for the log `polls`: its state, whether
\* its `included` array has an entry of type asset with a non-empty path,
\* and under READY, if it has one, where the first one is in the array (at),
\* its path (first) and the length of the array (entries).
Usable(included) ==
    {j \in DOMAIN included :
        included[j].type = "asset" /\ included[j].path # ""}
LeastUsable(included) ==
    CHOOSE j \in Usable(included) : \A k \in Usable(included) : j <= k
HasUsableAsset(included) ==
    \E i \in DOMAIN included :
        included[i].type = "asset" /\ included[i].path # ""
Observed(body) ==
    LET seen == body.state = "READY" /\ Usable(body.included) # {} IN
    [state |-> body.state, usable |-> HasUsableAsset(body.included),
     at |-> IF seen THEN LeastUsable(body.included) ELSE 0,
     first |-> IF seen THEN body.included[LeastUsable(body.included)].path
               ELSE "",
     entries |-> IF seen THEN Len(body.included) ELSE 0]

\* mutant of LoopContinues: one iteration too many
LoopContinuesOffByOne(count, max) == count <= max
\* the loop condition
LoopContinues(count, max) == count < max

\* mutant of IsFailureState: ERROR is taken for a state to wait on
IsFailureStateFailedOnly(state) == state = "FAILED"
\* elif state == "FAILED" or state == "ERROR"
IsFailureState(state) == state = "FAILED" \/ state = "ERROR"

\* the number of seconds TimeoutError's message reports
TimeoutBudget(max, interval) == max * interval

\* mutant of RetriesExhausted: the raise is missing, the method returns None
RetriesExhaustedReturnsNone(max, interval) == Return(None)
\* raise TimeoutError(f"... timed out after {max_retries * polling_interval}
\* seconds")
RetriesExhausted(max, interval) ==
    [Raise("TimeoutError") EXCEPT !.budget = TimeoutBudget(max, interval)]

\* mutant of WriteFile: the file is opened for writing and nothing written
WriteFileEmpty(filename, response) == [file |-> filename, content |-> ""]
\* with open(filename, "wb") as f: f.write(response.content)
WriteFile(filename, response) ==
    [file |-> filename, content |-> response.content]

\* the status GET of one iteration
StatusRequest(id) == ApiRequest("GET", <<"avatars", id>>, NoBody)

\* download_avatar up to the loop: the identifier is resolved
DownloadAvatar(aid, fname, interval, retries) ==
    LET id == Or(aid, avatar_id) IN
    /\ Begin("download_avatar",
             [NoArgs EXCEPT !.avatar_id = id, !.passed_id = aid,
                            !.filename = fname,
                            !.polling_interval = interval,
                            !.max_retries = retries])
    /\ IF ~Truthy(id)
       THEN /\ result' = Raise("ValidationError")
            /\ pc' = "done"
       ELSE /\ result' = NoResult
            /\ pc' = "polling"
    /\ net' = <<>> /\ reply' = NoReply /\ FreshLoops
    /\ UNCHANGED <<entity, app>>

\* one iteration of the polling loop; r answers the status GET, and one of
\* AssetResponses the GET of the download URL if the iteration gets that far
DownloadPoll(r) ==
    /\ pc = "polling"
    /\ LoopContinues(retry_count, args.max_retries)
    /\ LET got == MakeRequest(r)
           req == StatusRequest(args.avatar_id[1])
           state == got.body.state
           url == FirstAsset(got.body.included)
       IN
       IF got.kind = "raise"
       THEN /\ net' = Append(net, req)
            /\ result' = got
            /\ pc' = "done"
            /\ UNCHANGED <<retry_count, polls, sleeps, writes, fetched>>
       ELSE IF state = "READY" /\ url # None
       THEN /\ net' = net \o <<req, DirectRequest("GET", url[1])>>
            /\ polls' = Append(polls, Observed(got.body))
            /\ \E a \in AssetResponses :
                 IF a.fault
                 THEN /\ result' = Raise("ConnectionError")
                      /\ UNCHANGED <<writes, fetched>>
                 ELSE IF a.status >= 400
                 THEN /\ result' = RaiseStatus("HTTPError", a.status)
                      /\ fetched' = Append(fetched, a.content)
                      /\ UNCHANGED writes
                 ELSE /\ writes' = Append(writes, WriteFile(args.filename, a))
                      /\ fetched' = Append(fetched, a.content)
                      /\ result' = Return(Some(args.filename))
            /\ pc' = "done"
            /\ UNCHANGED <<retry_count, sleeps>>
       ELSE IF IsFailureState(state)
       THEN /\ net' = Append(net, req)
            /\ polls' = Append(polls, Observed(got.body))
            /\ result' = [Raise("APIError") EXCEPT !.state = state]
            /\ pc' = "done"
            /\ UNCHANGED <<retry_count, sleeps, writes, fetched>>
       ELSE /\ net' = Append(net, req)
            /\ polls' = Append(polls, Observed(got.body))
            /\ sleeps' = Append(sleeps, args.polling_interval)
            /\ retry_count' = retry_count + 1
            /\ UNCHANGED <<pc, result, writes, fetched>>
    /\ UNCHANGED <<entity, op, args, upload, reply, app>>

\* the loop ends with the retries used up
DownloadTimeout ==
    /\ pc = "polling"
    /\ ~LoopContinues(retry_count, args.max_retries)
    /\ result' = RetriesExhausted(args.max_retries, args.polling_interval)
    /\ pc' = "done"
    /\ UNCHANGED <<entity, op, args, download, upload, net, reply, app>>

----------------------------------------------------------------------------
(* The form front end (src/app.py): each request to /create-avatar is      *)
(* handled by a thread, statement by statement, and the threads take       *)
(* turns at any statement.                                                 *)

\* the API requests of create_avatar_from_image(image_paths=[filepath]), in
\* order: make_request puts the Avatar's api_key in each
HandlerSteps == <<"create", "presign", "fit">>

\* "Authorization": f"Bearer {self.api_key}"
Authorization(key) == <<"Bearer", key>>

\* the form is read and checked; k is its api_key field, which is not empty
Receive(h, k) ==
    /\ handler[h].pc = "waiting"
    /\ handler' = [handler EXCEPT ![h] =
                     [NoHandler EXCEPT !.pc = "received", !.key = Some(k)]]
    /\ UNCHANGED <<API_KEY, call>>

\* meshcapade.set_api_key(api_key)
SetApiKey(h) ==
    /\ handler[h].pc = "received"
    /\ API_KEY' = handler[h].key
    /\ handler' = [handler EXCEPT ![h].pc = "keyed"]
    /\ UNCHANGED call

\* avatar = meshcapade.Avatar(): BaseClient.__init__ without arguments
NewAvatar(h) ==
    /\ handler[h].pc = "keyed"
    /\ LET api_key == Or(None, API_KEY) IN
       IF ~Truthy(api_key)
       THEN handler' = [handler EXCEPT ![h].pc = "done", ![h].status = 500]
       ELSE handler' = [handler EXCEPT ![h].pc = "constructed",
                                       ![h].api_key = api_key]
    /\ UNCHANGED <<API_KEY, call>>

\* a setter or create_avatar_from_image raises ValidationError (a height
\* that is not positive, no height in the form): no API request is made,
\* and the handler answers 400
HandlerRefused(h) ==
    /\ handler[h].pc = "constructed"
    /\ handler[h].sent = <<>>
    /\ handler' = [handler EXCEPT ![h].pc = "done", ![h].status = 400]
    /\ UNCHANGED <<API_KEY, call>>

\* the attributes are set and create_avatar_from_image makes its next API
\* request, which succeeds (ok) or raises; after the last one, or the one
\* that raises, the handler answers 201 or 500
HandlerRequest(h, ok) ==
    /\ handler[h].pc = "constructed"
    /\ LET n == Len(handler[h].sent) + 1
           req == [step |-> HandlerSteps[n],
                   authorization |-> Authorization(handler[h].api_key[1])]
       IN
       handler' = [handler EXCEPT
                     ![h].sent = Append(@, req),
                     ![h].pc = IF ok /\ n < Len(HandlerSteps)
                               THEN "constructed" ELSE "done",
                     ![h].status = IF ~ok THEN 500
                                   ELSE IF n = Len(HandlerSteps) THEN 201
                                   ELSE 0]
    /\ UNCHANGED <<API_KEY, call>>

\* the answer is sent, and the thread is free for the next request
Respond(h) ==
    /\ handler[h].pc = "done"
    /\ handler' = [handler EXCEPT ![h] = NoHandler]
    /\ UNCHANGED <<API_KEY, call>>

----------------------------------------------------------------------------
(* Specifications *)

\* The entity and its creation workflows, from Avatar.__init__ on.
Next ==
    \/ \E v \in NameInputs : SetName(v)
    \/ \E v \in NumberInputs : SetHeight(v)
    \/ \E v \in WeightInputs : SetWeight(v)
    \/ \E v \in GenderInputs : SetGender(v)
    \/ \E paths \in SeqUpTo(ImagePaths, MaxImages), r \in Responses(CreateBodies) :
          CreateAvatarFromImage(paths, r)
    \/ \E r \in Responses(PresignBodies), put \in PutResponses : UploadImage(r, put)
    \/ \E r \in Responses({RawDescriptor}) : StartFittingProcess(r)
    \/ \E n \in NameArgs, g \in GenderArgs, m \in MeasurementsArgs,
          r \in Responses(CreateBodies) : CreateAvatarFromMeasurements(n, g, m, r)
    \/ \E r \in Responses(CreateBodies) : CreatePredefinedAvatar(r)
    \/ \E aid \in AvatarIdArgs, r \in Responses(AvatarBodies) : GetAvatar(aid, r)
    \/ \E aid \in AvatarIdArgs, r \in Responses(AvatarBodies) : DeleteAvatar(aid, r)
    \/ \E r \in Responses(AvatarBodies) \cup EdgeResponses : ListAvatars(r)
    \/ Finish

Spec == Init /\ [][Next]_vars

\* download_avatar, called on an Avatar that is fresh (nothing set), or
\* that a creation workflow has given its attributes and an identifier.
InitDownload ==
    /\ \/ /\ name = None /\ height = None /\ weight = None /\ gender = None
          /\ avatar_id \in {None} \cup {Some(i) : i \in Ids}
       \/ /\ name = Some("Emma") /\ height = Some(170) /\ weight = Some(60)
          /\ gender = Some("female")
          /\ avatar_id \in {Some(i) : i \in Ids}
    /\ pc = "idle" /\ op = "none" /\ args = NoArgs
    /\ retry_count = 0 /\ polls = <<>> /\ sleeps = <<>> /\ writes = <<>>
    /\ fetched = <<>>
    /\ create_reply = "none" /\ reply_id = None
    /\ fit_reply = "none" /\ avatar_data = None
    /\ image_index = 1 /\ upload_results = <<>> /\ outcomes = <<>>
    /\ answers = <<>>
    /\ net = <<>>
    /\ result = NoResult
    /\ reply = NoReply
    /\ API_KEY = Some("k1")
    /\ handler = [h \in Handlers |-> NoHandler]

NextDownload ==
    \/ \E aid \in AvatarIdArgs, f \in Filenames, i \in PollingIntervals,
          n \in 0..MaxRetries : DownloadAvatar(aid, f, i, n)
    \/ \E r \in Responses(StatusBodies) : DownloadPoll(r)
    \/ DownloadTimeout
    \/ Finish

SpecDownload == InitDownload /\ [][NextDownload]_vars

\* download_avatar run by its one thread against a service that answers
\* each request: an iteration of the loop that can be taken is taken, and
\* so is the raise after the loop.  The `included` arrays of the answers
\* have one entry at most: whether the loop ends does not depend on more.
ShortStatusBodies == {b \in StatusBodies : Len(b.included) <= 1}
PollStep == \E r \in Responses(ShortStatusBodies) : DownloadPoll(r)
NextDownloadFair ==
    \/ \E aid \in AvatarIdArgs, f \in Filenames, i \in PollingIntervals,
          n \in 0..MaxRetries : DownloadAvatar(aid, f, i, n)
    \/ PollStep
    \/ DownloadTimeout
    \/ Finish

SpecDownloadFair ==
    /\ InitDownload /\ [][NextDownloadFair]_vars
    /\ WF_vars(PollStep)
    /\ WF_vars(DownloadTimeout)

\* Every method that makes requests, called on an Avatar whose four
\* attributes are set and that is bound to an identifier or not yet.
InitSession ==
    /\ name = Some("Emma") /\ height = Some(170) /\ weight = Some(60)
    /\ gender = Some("female")
    /\ avatar_id \in {None, Some("a1")}
    /\ pc = "idle" /\ op = "none" /\ args = NoArgs
    /\ retry_count = 0 /\ polls = <<>> /\ sleeps = <<>> /\ writes = <<>>
    /\ fetched = <<>>
    /\ create_reply = "none" /\ reply_id = None
    /\ fit_reply = "none" /\ avatar_data = None
    /\ image_index = 1 /\ upload_results = <<>> /\ outcomes = <<>>
    /\ answers = <<>>
    /\ net = <<>>
    /\ result = NoResult
    /\ reply = NoReply
    /\ API_KEY = Some("k1")
    /\ handler = [h \in Handlers |-> NoHandler]

NextSession ==
    \/ \E paths \in SeqUpTo(ImagePaths, MaxImages), r \in Responses(CreateBodies) :
          CreateAvatarFromImage(paths, r)
    \/ \E r \in Responses(PresignBodies), put \in PutResponses : UploadImage(r, put)
    \/ \E r \in Responses({RawDescriptor}) : StartFittingProcess(r)
    \/ \E n \in NameArgs, g \in GenderArgs, m \in MeasurementsArgs,
          r \in Responses(CreateBodies) : CreateAvatarFromMeasurements(n, g, m, r)
    \/ \E r \in Responses(CreateBodies) : CreatePredefinedAvatar(r)
    \/ \E aid \in AvatarIdArgs, r \in Responses(AvatarBodies) : GetAvatar(aid, r)
    \/ \E aid \in AvatarIdArgs, r \in Responses(AvatarBodies) : DeleteAvatar(aid, r)
    \/ \E r \in Responses(AvatarBodies) \cup EdgeResponses : ListAvatars(r)
    \/ \E aid \in AvatarIdArgs, f \in Filenames, i \in PollingIntervals,
          n \in 0..MaxRetries : DownloadAvatar(aid, f, i, n)
    \/ \E r \in Responses(StatusBodies) : DownloadPoll(r)
    \/ DownloadTimeout
    \/ Finish

SpecSession == InitSession /\ [][NextSession]_vars

\* The form front end from the start of the process: meshcapade is imported,
\* no request has come in.  The Avatar of the other two specifications is
\* not part of it.
InitApp ==
    /\ API_KEY = None
    /\ handler = [h \in Handlers |-> NoHandler]
    /\ name = None /\ height = None /\ weight = None /\ gender = None
    /\ avatar_id = None
    /\ pc = "idle" /\ op = "none" /\ args = NoArgs
    /\ retry_count = 0 /\ polls = <<>> /\ sleeps = <<>> /\ writes = <<>>
    /\ fetched = <<>>
    /\ create_reply = "none" /\ reply_id = None
    /\ fit_reply = "none" /\ avatar_data = None
    /\ image_index = 1 /\ upload_results = <<>> /\ outcomes = <<>>
    /\ answers = <<>>
    /\ net = <<>>
    /\ result = NoResult
    /\ reply = NoReply

NextApp ==
    \/ \E h \in Handlers, k \in ApiKeys : Receive(h, k)
    \/ \E h \in Handlers : SetApiKey(h)
    \/ \E h \in Handlers : NewAvatar(h)
    \/ \E h \in Handlers : HandlerRefused(h)
    \/ \E h \in Handlers, ok \in BOOLEAN : HandlerRequest(h, ok)
    \/ \E h \in Handlers : Respond(h)

SpecApp == InitApp /\ [][NextApp]_vars

----------------------------------------------------------------------------
(* What the logs of a call show *)

\* the status GETs of the call: the GETs sent to the service API
StatusGets == Cardinality({i \in DOMAIN net :
                  net[i].method = "GET" /\ net[i].auth})
\* the GETs of a download URL
AssetGets == Cardinality({i \in DOMAIN net :
                  net[i].method = "GET" /\ ~net[i].auth})

\* a download_avatar call that got past the resolution of the identifier
Downloading == op = "download_avatar" /\ result.exc # "ValidationError"
\* every status GET of the call was answered with a body
AllPollsDecoded == Len(polls) = StatusGets

ReadyWithAsset(p) == p.state = "READY" /\ p.usable
FailedOrError(p) == p.state \in {"FAILED", "ERROR"}
\* poll k is the first READY poll with a usable asset, after no FAILED or ERROR
FirstReadyAt(k) ==
    /\ k \in DOMAIN polls
    /\ ReadyWithAsset(polls[k])
    /\ \A j \in 1..(k - 1) : ~ReadyWithAsset(polls[j]) /\ ~FailedOrError(polls[j])

----------------------------------------------------------------------------
(* Claims about download_avatar, checked under SpecDownload *)

\* C1: when no poll returns READY with a usable asset and none returns FAILED
\* or ERROR, download_avatar issues exactly max_retries status GETs and then
\* raises TimeoutError reporting max_retries * polling_interval; it never
\* issues more than max_retries status GETs.
C1_TimeoutAfterMaxRetries ==
    /\ Downloading => StatusGets <= args.max_retries
    /\ ( /\ Downloading /\ pc = "done" /\ AllPollsDecoded
         /\ \A i \in DOMAIN polls :
                ~ReadyWithAsset(polls[i]) /\ ~FailedOrError(polls[i]) )
       => /\ result.kind = "raise" /\ result.exc = "TimeoutError"
          /\ StatusGets = args.max_retries
          /\ result.budget = args.max_retries * args.polling_interval

\* a call that timed out after three polls, one of them READY without an asset
C1_Witness ==
    /\ Downloading /\ pc = "done" /\ result.exc = "TimeoutError"
    /\ args.max_retries = 3 /\ StatusGets = 3 /\ args.polling_interval = 5
    /\ \E i \in DOMAIN polls : polls[i].state = "READY"
    /\ \E i \in DOMAIN polls : polls[i].state = "PROCESSING"

\* C2: the first poll whose state is FAILED or ERROR ends the call at once
\* with APIError carrying that state: it is the last status GET, and the call
\* has no sleep after it, no asset download and no file write.
C2_FailedEndsCall ==
    \A i \in DOMAIN polls :
        (Downloading /\ FailedOrError(polls[i])) =>
            /\ i = Len(polls) /\ StatusGets = i
            /\ pc = "done"
            /\ result.kind = "raise" /\ result.exc = "APIError"
            /\ result.state = polls[i].state
            /\ Len(sleeps) = i - 1
            /\ AssetGets = 0 /\ writes = <<>>

\* an ERROR on the second poll of a call with retries to spare
C2_Witness ==
    /\ Downloading /\ Len(polls) = 2 /\ polls[2].state = "ERROR"
    /\ args.max_retries = 3 /\ result.exc = "APIError"

\* C3 as claimed: if poll k is the first READY poll with a usable asset, the
\* call succeeds after exactly k status GETs and k-1 sleeps.
C3_AsClaimed ==
    \A k \in DOMAIN polls :
        (Downloading /\ FirstReadyAt(k)) =>
            /\ pc = "done" /\ result.kind = "return"
            /\ StatusGets = k /\ Len(sleeps) = k - 1

\* C3 amended: if poll k is the first READY poll with a usable asset, the
\* call ends after exactly k status GETs, k-1 sleeps (none after poll k) and
\* one GET of the download URL; it returns the filename when that GET is
\* answered with a status below 400 and raises the GET's error otherwise.
C3_ReadyAtK ==
    \A k \in DOMAIN polls :
        (Downloading /\ FirstReadyAt(k)) =>
            /\ pc = "done" /\ k = Len(polls)
            /\ StatusGets = k /\ Len(sleeps) = k - 1 /\ AssetGets = 1
            /\ \/ /\ result.kind = "return"
                  /\ result.value = Some(args.filename)
                  /\ Len(writes) = 1
               \/ /\ result.kind = "raise"
                  /\ result.exc \in {"HTTPError", "ConnectionError"}
                  /\ writes = <<>>

\* PROCESSING, PROCESSING, READY: a download after two sleeps
C3_Witness ==
    /\ Downloading /\ FirstReadyAt(3)
    /\ polls[1].state = "PROCESSING" /\ polls[2].state = "PROCESSING"
    /\ result.kind = "return" /\ Len(sleeps) = 2

\* C4: a poll that returns READY without a usable asset raises nothing, costs
\* one attempt and one sleep, and leaves the call polling; TimeoutError is
\* raised only with the retries used up.
C4_ReadyWithoutAsset ==
    /\ [](result.exc = "TimeoutError" => retry_count = args.max_retries)
    /\ [][ ( /\ Len(polls') = Len(polls) + 1
             /\ polls'[Len(polls')].state = "READY"
             /\ ~polls'[Len(polls')].usable )
           => /\ pc' = "polling" /\ result' = result
              /\ retry_count' = retry_count + 1
              /\ sleeps' = Append(sleeps, args.polling_interval)
              /\ Len(net') = Len(net) + 1
              /\ writes' = writes ]_vars

\* READY without an asset on the first poll, a download on the second
C4_Witness ==
    /\ Downloading /\ Len(polls) = 2
    /\ polls[1].state = "READY" /\ ~polls[1].usable
    /\ ReadyWithAsset(polls[2]) /\ result.kind = "return"
    /\ Len(sleeps) = 1

----------------------------------------------------------------------------
(* Claims about the creation workflows, checked under Spec *)

CreateCall == op = "create_avatar_from_image"
AnyUnset == name = None \/ height = None \/ weight = None \/ gender = None
\* the POSTs of the call to avatars/{id}/images and avatars/{id}/fit-to-images
PostsTo(what) == {i \in DOMAIN net :
                    /\ net[i].method = "POST" /\ Len(net[i].target) = 3
                    /\ net[i].target[3] = what}
PresignPosts == Cardinality(PostsTo("images"))
FitPosts == Cardinality(PostsTo("fit-to-images"))
\* the call got into the upload step, and is over
UploadStepOver ==
    CreateCall /\ pc = "done" /\ avatar_data # None /\ args.image_paths # <<>>
\* _upload_images returned its list
UploadReturned == UploadStepOver /\ FitPosts = 1

\* C5: create_avatar_from_image called with name, height, weight or gender
\* unset raises ValidationError, issues no HTTP request and leaves avatar_id
\* as it was.
C5_UnsetIsValidationError ==
    [][ (pc = "idle" /\ op' = "create_avatar_from_image" /\ AnyUnset)
        => /\ result'.kind = "raise" /\ result'.exc = "ValidationError"
           /\ net' = <<>>
           /\ avatar_id' = avatar_id
           /\ pc' = "done" ]_vars

\* the call refused on an Avatar with a name and an identifier but no height
C5_Witness ==
    /\ CreateCall /\ result.exc = "ValidationError" /\ net = <<>>
    /\ name # None /\ height = None /\ avatar_id # None

\* C6: when the answer to the create POST (from images or from measurements)
\* lacks data.id, the call raises APIError, avatar_id keeps its value, and
\* the create POST is the only request of the call.
C6_NoIdIsApiError ==
    [][ ( /\ pc = "idle"
          /\ op' \in {"create_avatar_from_image",
                      "create_avatar_from_measurements"}
          /\ create_reply' = "no_id" )
        => /\ result'.kind = "raise" /\ result'.exc = "APIError"
           /\ avatar_id' = avatar_id
           /\ Len(net') = 1
           /\ pc' = "done" ]_vars

\* a create-from-images with image paths, answered without data.id, on an
\* Avatar that had an identifier already
C6_Witness ==
    /\ CreateCall /\ create_reply = "no_id" /\ result.exc = "APIError"
    /\ args.image_paths # <<>> /\ avatar_id # None

\* C7: the upload step returns exactly one entry per image path, in input
\* order, tagged success, failed or skipped as the path fared.
C7_OneResultPerPath ==
    UploadReturned =>
        /\ Len(upload_results) = Len(args.image_paths)
        /\ \A i \in DOMAIN upload_results :
            /\ upload_results[i].file = args.image_paths[i].file
            /\ upload_results[i].status \in {"success", "failed", "skipped"}
            /\ upload_results[i].status = "success" <=> outcomes[i] = "put_200"

\* C8: a path whose file does not exist costs no request, raises nothing and
\* gets an entry with status failed in the result list.
C8_MissingFileRecorded ==
    CreateCall =>
        /\ PresignPosts = Cardinality({i \in DOMAIN outcomes : outcomes[i] # "missing"})
        /\ \A i \in DOMAIN outcomes :
            outcomes[i] = "missing" =>
                \E j \in DOMAIN upload_results :
                    /\ upload_results[j].file = args.image_paths[i].file
                    /\ upload_results[j].status = "failed"

\* C9: the upload step never raises for one image's failure: when the
\* pre-signed-URL request or the PUT for an image fails (an answer without
\* data.links.upload, an HTTP error status, a transport fault), every path
\* of the list is still processed and the step returns its list.
C9_UploadNeverRaises ==
    (UploadStepOver /\ \A i \in DOMAIN outcomes : outcomes[i] # "no_image_id") =>
        /\ Len(outcomes) = Len(args.image_paths)
        /\ FitPosts = 1

\* the outcomes C10 lists, and success
SoftOutcomes == {"missing", "no_link", "put_other", "put_200"}
AllSoft == /\ Len(outcomes) = Len(args.image_paths)
           /\ \A i \in DOMAIN outcomes : outcomes[i] \in SoftOutcomes

\* C10 as claimed: whatever mix of missing files, answers without
\* data.links.upload and PUT statuses other than 200 occurs, the workflow
\* issues the fit-to-images POST after the upload step and returns the id.
C10_AsClaimed ==
    (UploadStepOver /\ AllSoft) =>
        /\ FitPosts = 1 /\ PostsTo("fit-to-images") = {Len(net)}
        /\ result = Return(avatar_id)

\* C10 amended: with such a mix the workflow issues the fit-to-images POST
\* after the upload step, as its last request and for the bound id; it
\* returns the id when that POST succeeds and raises that POST's error
\* otherwise.
C10_FitAfterUpload ==
    (UploadStepOver /\ AllSoft) =>
        /\ FitPosts = 1 /\ PostsTo("fit-to-images") = {Len(net)}
        /\ net[Len(net)].target[2] = avatar_id[1]
        /\ avatar_id = avatar_data
        /\ fit_reply \in {"ok", "raised"}
        /\ fit_reply = "ok" => result = Return(avatar_id)
        /\ fit_reply = "raised" =>
              /\ result.kind = "raise"
              /\ result.exc \in {"APIError", "AuthenticationError",
                                 "ResourceNotFoundError"}

\* two paths, one without a file and one whose PUT was answered 500, and the
\* id returned
C10_Witness ==
    /\ UploadStepOver /\ outcomes = <<"missing", "put_other">>
    /\ FitPosts = 1 /\ result = Return(avatar_id)

\* C11: every run of create_avatar_from_image that creates the empty avatar
\* and returns has issued exactly one fit-to-images POST, for the bound id
\* and with the body of the create POST, and returns the bound id, with or
\* without image paths.
C11_FitAlwaysIssued ==
    (CreateCall /\ pc = "done" /\ create_reply = "id"
                /\ result.kind = "return") =>
        /\ FitPosts = 1
        /\ \A i \in PostsTo("fit-to-images") :
              /\ net[i].body = net[1].body
              /\ net[i].target[2] = avatar_id[1]
        /\ result.value = avatar_id

\* C12: once avatar_id holds a server id, no operation on the Avatar
\* changes it to another value.
C12_IdNeverChanges ==
    [][avatar_id # None => avatar_id' = avatar_id]_vars

----------------------------------------------------------------------------
(* Claims about the attributes, checked under Spec *)

\* a setter of height or weight, or of gender, is called
NumberAssigned == pc = "idle" /\ op' \in {"height", "weight"}
GenderAssigned == pc = "idle" /\ op' = "gender"

\* C13: assigning height or weight a value that is not a positive integer,
\* or gender a value other than "male" or "female", raises ValidationError
\* and leaves the four attributes as they were; assigning a valid value
\* returns and changes that attribute alone.  So height and weight are
\* always unset or above 0, and gender is unset, "male" or "female".
C13_SettersValidate ==
    /\ [](/\ height # None => height[1] > 0
          /\ weight # None => weight[1] > 0
          /\ gender \in {None, Some("male"), Some("female")})
    /\ [][ NumberAssigned =>
             IF args'.number.int /\ args'.number.v >= 1
             THEN /\ result' = Return(None)
                  /\ name' = name /\ gender' = gender
                  /\ op' = "height" => /\ height' = Some(args'.number.v)
                                       /\ weight' = weight
                  /\ op' = "weight" => /\ weight' = Some(args'.number.v)
                                       /\ height' = height
             ELSE /\ result' = Raise("ValidationError")
                  /\ UNCHANGED <<name, height, weight, gender>> ]_vars
    /\ [][ GenderAssigned =>
             IF args'.value = Some("male") \/ args'.value = Some("female")
             THEN /\ result' = Return(None)
                  /\ gender' = args'.value
                  /\ UNCHANGED <<name, height, weight>>
             ELSE /\ result' = Raise("ValidationError")
                  /\ UNCHANGED <<name, height, weight, gender>> ]_vars

\* height 0 refused on an Avatar whose height is 170, which it keeps
C13_Witness ==
    /\ op = "height" /\ pc = "done"
    /\ args.number = [int |-> TRUE, v |-> 0]
    /\ result = Raise("ValidationError")
    /\ height = Some(170) /\ gender = Some("male")

\* the name setter is called
NameAssigned == pc = "idle" /\ op' = "name"
\* the creation requests of the call: the POSTs to avatars/create/...
CreationRequests == {i \in DOMAIN net :
                       /\ net[i].method = "POST" /\ Len(net[i].target) = 3
                       /\ net[i].target[2] = "create"}

\* C14: assigning name a missing or empty value raises ValidationError and
\* leaves the name as it was; so name is never the empty string, and no
\* creation request carries an empty name.
C14_EmptyNameRefused ==
    /\ [](name # Some(""))
    /\ [](\A i \in CreationRequests : Truthy(net[i].body.name))
    /\ [][ (NameAssigned /\ ~Truthy(args'.value)) =>
              /\ result' = Raise("ValidationError")
              /\ name' = name ]_vars

----------------------------------------------------------------------------
(* Claims about the errors and the arguments of the calls *)

\* the five error kinds of the SDK
SdkErrors == {"APIError", "AuthenticationError", "ResourceNotFoundError",
              "ValidationError", "TimeoutError"}

\* C15: every call that fails raises one of the five SDK errors; a transport
\* fault or an error status of any HTTP request of the call, the PUT to the
\* pre-signed URL and the GET of the download URL included, reaches the
\* caller as APIError (AuthenticationError, ResourceNotFoundError for 401,
\* 404 from the API), never as an exception of the transport library.
C15_OnlySdkErrors ==
    result.kind = "raise" => result.exc \in SdkErrors

----------------------------------------------------------------------------
(* Claims about create_avatar_from_measurements, checked under Spec *)

\* a create_avatar_from_measurements call that is over
MeasurementsCall == op = "create_avatar_from_measurements" /\ pc = "done"
\* the name and the gender the call goes by: the argument, else the Avatar's
EffectiveName ==
    IF args.name # None /\ args.name # Some("") THEN args.name ELSE name
EffectiveGender ==
    IF args.gender # None /\ args.gender # Some("") THEN args.gender ELSE gender
NameAndGenderValid ==
    /\ EffectiveName \notin {None, Some("")}
    /\ EffectiveGender = Some("male") \/ EffectiveGender = Some("female")

\* C16: create_avatar_from_measurements called without a measurements
\* mapping sends Height = the Avatar's height and Weight = the Avatar's
\* weight in its POST to avatars/create/from-measurements; with height or
\* weight unset it raises ValidationError and makes no request.
C16_DefaultMeasurements ==
    (MeasurementsCall /\ args.measurements = None) =>
        /\ (height = None \/ weight = None) =>
              result = Raise("ValidationError") /\ net = <<>>
        /\ (height # None /\ weight # None /\ NameAndGenderValid) =>
              /\ Len(net) = 1
              /\ net[1].method = "POST"
              /\ net[1].target = <<"avatars", "create", "from-measurements">>
              /\ net[1].body.shape = "measurements"
              /\ net[1].body.height = height
              /\ net[1].body.weight = weight

\* a call without a mapping on an Avatar of height 170 and weight 60, which
\* returned an id
C16_Witness ==
    /\ MeasurementsCall /\ args.measurements = None
    /\ height = Some(170) /\ weight = Some(60)
    /\ Len(net) = 1 /\ result.kind = "return"

\* C17: create_avatar_from_measurements raises ValidationError and makes no
\* request whenever the effective name is missing or the effective gender
\* is missing or neither "male" nor "female"; when its checks pass it makes
\* its request, and when the answer holds data.id it binds avatar_id to
\* that id and returns it.
C17_MeasurementsValidation ==
    MeasurementsCall =>
        /\ ~NameAndGenderValid =>
              /\ result = Raise("ValidationError")
              /\ net = <<>> /\ create_reply = "none"
        /\ ( /\ NameAndGenderValid
             /\ args.measurements # None \/ (height # None /\ weight # None) )
           => /\ Len(net) = 1
              /\ net[1].body.name = EffectiveName
              /\ net[1].body.gender = EffectiveGender
        /\ reply_id # None =>
              /\ avatar_id = reply_id
              /\ result = Return(reply_id)

\* the argument "Male" refused on an Avatar whose own gender is "female"
C17_Witness ==
    /\ MeasurementsCall /\ args.gender = Some("Male")
    /\ gender = Some("female") /\ name = Some("Emma")
    /\ height # None /\ weight # None
    /\ result = Raise("ValidationError") /\ net = <<>>

----------------------------------------------------------------------------
(* Claims about download_avatar's arguments and its file, checked under    *)
(* SpecDownload                                                            *)

\* the identifier the caller passed, if it passed one
IdPassed == args.passed_id # None /\ args.passed_id # Some("")
\* the identifier the call is to go by
IdToUse == IF IdPassed THEN args.passed_id ELSE avatar_id

\* C18: download_avatar goes by the identifier passed to it when one is
\* passed, and by the Avatar's avatar_id otherwise; with neither it raises
\* ValidationError without a request or a sleep.
C18_IdResolution ==
    op = "download_avatar" =>
        IF IdToUse = None
        THEN /\ pc = "done" /\ result = Raise("ValidationError")
             /\ net = <<>> /\ sleeps = <<>>
        ELSE /\ result.exc # "ValidationError"
             /\ \A i \in DOMAIN net :
                   net[i].auth => net[i].target = <<"avatars", IdToUse[1]>>

\* a1 passed to an Avatar bound to a2, and polled for twice
C18_Witness ==
    /\ op = "download_avatar" /\ args.passed_id = Some("a1")
    /\ avatar_id = Some("a2") /\ StatusGets = 2

\* C19: a download_avatar call that returns has written the body of the
\* answer to the GET of the download URL, all of it and nothing else, to
\* the file it was given, and returns the name of that file as given.
C19_FileHoldsBody ==
    (op = "download_avatar" /\ result.kind = "return") =>
        /\ Len(fetched) = 1
        /\ writes = <<[file |-> args.filename, content |-> fetched[1]]>>
        /\ result.value = Some(args.filename)

\* mesh2 written to out.obj after one poll that was not READY
C19_Witness ==
    /\ op = "download_avatar" /\ result = Return(Some("out.obj"))
    /\ fetched = <<"mesh2">> /\ Len(writes) = 1 /\ Len(sleeps) = 1

----------------------------------------------------------------------------
(* Claims about the form front end, checked under SpecApp *)

\* C20: requests to the form front end do not interfere through the
\* process-wide credentials: however the handling of two requests with
\* different API keys is interleaved, every API request made for a form
\* carries the key submitted with that form.
C20_OwnKey ==
    \A h \in Handlers :
        \A i \in DOMAIN handler[h].sent :
            handler[h].sent[i].authorization = <<"Bearer", handler[h].key[1]>>

----------------------------------------------------------------------------
(* Claims about the requests, checked under SpecSession and Spec *)

\* a request to the service API, by what it asks for: avatars/...
ToApi(req) == req.target[1] = "avatars"

\* C21: every request to the service API (create, images, fit-to-images,
\* status GET, list, delete) carries the bearer Authorization header, and
\* the PUT to the pre-signed URL and the GET of the download URL carry none.
C21_BearerOnApiOnly ==
    \A i \in DOMAIN net :
        /\ net[i].auth <=> ToApi(net[i])
        /\ ~ToApi(net[i]) => net[i].method \in {"PUT", "GET"}

\* a download: a status GET with the header, then the asset GET without
C21_Witness ==
    /\ op = "download_avatar" /\ Len(net) = 2
    /\ net[1].auth /\ ToApi(net[1]) /\ net[1].method = "GET"
    /\ ~net[2].auth /\ net[2].method = "GET" /\ net[2].target = <<"u1">>

\* a get_avatar, delete_avatar or list_avatars call that went to the
\* service and is over: one make_request call, whose outcome is the call's
OneRequestCall ==
    /\ op \in {"get_avatar", "delete_avatar", "list_avatars"}
    /\ pc = "done" /\ result # Raise("ValidationError")
\* the request was answered with a status
Answered == reply.status > 0

\* what a status of 400 and above is mapped to
C22_ErrorStatuses ==
    /\ reply.status = 401 => result = Raise("AuthenticationError")
    /\ reply.status = 404 => result = Raise("ResourceNotFoundError")
    /\ (reply.status >= 400 /\ reply.status \notin {401, 404}) =>
          result = RaiseStatus("APIError", reply.status)

\* C22 as claimed: a make_request call issues exactly one request; 401
\* raises AuthenticationError, 404 ResourceNotFoundError, any other status
\* of 400 and above APIError with that status, and any status below 400
\* returns a body (the decoded JSON or the raw-content descriptor) without
\* raising.
C22_AsClaimed ==
    (OneRequestCall /\ Answered) =>
        /\ Len(net) = 1
        /\ C22_ErrorStatuses
        /\ reply.status < 400 =>
              /\ result.kind = "return"
              /\ result.body = IF reply.json THEN reply.body ELSE RawDescriptor

\* C22 amended: as claimed, but a status below 400 returns a body only if
\* the body is not declared as JSON or can be decoded; one that is declared
\* as JSON and cannot be decoded raises APIError without a status code.
C22_StatusMapping ==
    (OneRequestCall /\ Answered) =>
        /\ Len(net) = 1
        /\ C22_ErrorStatuses
        /\ (reply.status < 400 /\ ~reply.fault) =>
              /\ result.kind = "return"
              /\ result.body = IF reply.json THEN reply.body ELSE RawDescriptor
        /\ (reply.status < 400 /\ reply.fault) => result = Raise("APIError")

\* list_avatars answered 404, on an Avatar bound to an id
C22_Witness ==
    /\ OneRequestCall /\ op = "list_avatars" /\ reply.status = 404
    /\ result = Raise("ResourceNotFoundError") /\ Len(net) = 1
    /\ avatar_id # None

\* The upload step, read off the log `answers`: the k-th answer belongs to
\* the k-th path; its entry in upload_results, if it has one, is as far
\* down the list as there are paths up to it whose file exists; the
\* requests of the k-th path follow those of the paths before it
EntryOf(k) == Cardinality({i \in 1..k : answers[i].presign # None})
SentUpTo(k) ==
    1 + EntryOf(k) + Cardinality({i \in 1..k : answers[i].put # None})
\* the loop went on after the k-th path
WentOn(k) ==
    /\ image_index > k
    /\ pc = "done" => (Len(answers) > k \/ FitPosts = 1)
\* the k-th path has an entry with this status
Recorded(k, status) ==
    /\ EntryOf(k) \in DOMAIN upload_results
    /\ upload_results[EntryOf(k)].status = status
    /\ upload_results[EntryOf(k)].file = args.image_paths[k].file

\* C23: in the upload step a PUT answered with status 200 is recorded as a
\* success with the image_id of the pre-signed-URL response, a PUT answered
\* with any other status (another 2xx too) as failed with that status, and
\* in both cases the loop goes on.
C23_Only200Succeeds ==
    CreateCall =>
        \A k \in DOMAIN answers :
            LET a == answers[k] IN
            (a.put # None /\ ~a.put[1].fault) =>
                /\ WentOn(k)
                /\ IF a.put[1].status = 200
                   THEN /\ Recorded(k, "success")
                        /\ upload_results[EntryOf(k)].image_id # None
                        /\ upload_results[EntryOf(k)].image_id =
                              a.presign[1].image
                   ELSE /\ Recorded(k, "failed")
                        /\ upload_results[EntryOf(k)].code = a.put[1].status

\* a PUT answered 204 is recorded as failed, the next one, answered 200, as
\* a success
C23_Witness ==
    /\ CreateCall /\ pc = "done" /\ Len(answers) = 2
    /\ answers[1].put # None /\ answers[1].put[1].status = 204
    /\ answers[2].put # None /\ answers[2].put[1].status = 200
    /\ upload_results[1].status = "failed" /\ upload_results[1].code = 204
    /\ upload_results[2].status = "success"

\* C24: when the answer to the POST for a pre-signed URL has no
\* data.links.upload, a failed entry is recorded, no PUT is made for that
\* image and the loop goes on; a PUT is made only for an image whose
\* pre-signed-URL answer had data.links.upload, to that URL, right after
\* that answer.
C24_PutNeedsUploadLink ==
    CreateCall =>
        /\ \A k \in DOMAIN answers :
            LET a == answers[k] IN
            /\ (a.presign # None /\ a.presign[1].answered
                  /\ a.presign[1].link = None) =>
                  /\ a.put = None
                  /\ Recorded(k, "failed")
                  /\ WentOn(k)
            /\ a.put # None =>
                  /\ a.presign # None /\ a.presign[1].link # None
                  /\ SentUpTo(k) \in DOMAIN net
                  /\ net[SentUpTo(k)].method = "PUT"
                  /\ net[SentUpTo(k)].target = <<a.presign[1].link[1]>>
                  /\ net[SentUpTo(k) - 1].method = "POST"
                  /\ net[SentUpTo(k) - 1].target =
                        <<"avatars", avatar_id[1], "images">>
        /\ Cardinality({i \in DOMAIN net : net[i].method = "PUT"})
              = Cardinality({k \in DOMAIN answers : answers[k].put # None})

\* the first image's answer has no upload link, the second one's has
C24_Witness ==
    /\ CreateCall /\ pc = "done" /\ Len(answers) = 2
    /\ answers[1].presign # None /\ answers[1].presign[1].answered
    /\ answers[1].presign[1].link = None
    /\ answers[1].put = None
    /\ answers[2].put # None
    /\ Len(upload_results) = 2 /\ upload_results[1].status = "failed"

\* the requests of a create_avatar_from_image call after its create POST
IsPresignPost(req) ==
    /\ req.method = "POST" /\ req.auth
    /\ req.target = <<"avatars", reply_id[1], "images">>
IsFitPost(req) ==
    /\ req.method = "POST" /\ req.auth
    /\ req.target = <<"avatars", reply_id[1], "fit-to-images">>
IsPut(req) == req.method = "PUT" /\ Len(req.target) = 1

\* C25: the requests of a create_avatar_from_image call come in one fixed
\* order.  The create POST is the first; everything after it comes with
\* the id bound, and the POSTs among it go to that id; the paths are taken
\* one at a time in input order, each one's POST (and PUT) after those of
\* the paths before it; the fit-to-images POST comes once, last, after the
\* last path was processed.
C25_LinearOrder ==
    (CreateCall /\ net # <<>>) =>
        /\ net[1].method = "POST"
        /\ net[1].target = <<"avatars", "create", "from-images">>
        /\ Len(net) > 1 => (reply_id # None /\ avatar_id = reply_id)
        /\ Len(answers) <= Len(args.image_paths)
        /\ Len(net) = SentUpTo(Len(answers)) + FitPosts
        /\ \A k \in DOMAIN answers :
            /\ answers[k].presign # None <=> args.image_paths[k].exists
            /\ answers[k].presign # None =>
                  IsPresignPost(net[SentUpTo(k - 1) + 1])
            /\ answers[k].put # None => IsPut(net[SentUpTo(k)])
            /\ (k < Len(answers) /\ answers[k].presign # None) =>
                  /\ EntryOf(k) \in DOMAIN upload_results
                  /\ upload_results[EntryOf(k)].file = args.image_paths[k].file
        /\ FitPosts <= 1
        /\ FitPosts = 1 =>
              /\ Len(answers) = Len(args.image_paths)
              /\ IsFitPost(net[Len(net)])
              /\ pc = "done"

\* two paths, both uploaded, then the fit-to-images POST
C25_Witness ==
    /\ CreateCall /\ pc = "done" /\ Len(net) = 6
    /\ IsPresignPost(net[2]) /\ IsPut(net[3])
    /\ IsPresignPost(net[4]) /\ IsPut(net[5])
    /\ IsFitPost(net[6])
    /\ args.image_paths[1].file = "b.jpg" /\ args.image_paths[2].file = "a.jpg"
    /\ upload_results[1].file = "b.jpg" /\ upload_results[2].file = "a.jpg"

\* the GETs of a download URL in the request log
AssetGetsAt == {i \in DOMAIN net : net[i].method = "GET" /\ ~net[i].auth}

\* C26: when the `included` array of a READY response has an entry of type
\* asset with a non-empty attributes.url.path, download_avatar makes
\* exactly one GET of a download URL, and it goes to the path of the first
\* such entry in array order, whatever other entries the array holds.
C26_FirstUsableAsset ==
    Downloading =>
        /\ Cardinality(AssetGetsAt) <= 1
        /\ \A i \in DOMAIN polls :
            (polls[i].state = "READY" /\ polls[i].at > 0) =>
                /\ i = Len(polls)
                /\ AssetGetsAt = {Len(net)}
                /\ net[Len(net)].target = <<polls[i].first>>

\* an array of two entries, the first of which cannot be used: the download
\* goes to the second
C26_Witness ==
    /\ Downloading /\ pc = "done" /\ Len(polls) >= 1
    /\ polls[Len(polls)].state = "READY"
    /\ polls[Len(polls)].entries = 2 /\ polls[Len(polls)].at = 2
    /\ polls[Len(polls)].first = "u2"
    /\ net[Len(net)].target = <<"u2">> /\ Cardinality(AssetGetsAt) = 1

\* C27: when create_avatar_from_image fails after the empty avatar was
\* created (in the upload step or at the fit-to-images POST), avatar_id
\* stays bound to the id the create POST returned; and no step of the call
\* changes name, height, weight or gender.
C27_IdKeptOnFailure ==
    [][op' = "create_avatar_from_image" =>
          /\ UNCHANGED <<name, height, weight, gender>>
          /\ (create_reply' = "id" /\ pc' = "done" /\ result'.kind = "raise") =>
                (avatar_id' # None /\ avatar_id' = reply_id')]_vars

\* the fit-to-images POST raised; the Avatar is bound to the new id
C27_Witness ==
    /\ CreateCall /\ pc = "done" /\ create_reply = "id"
    /\ fit_reply = "raised" /\ result.kind = "raise"
    /\ avatar_id = reply_id /\ avatar_id # None
    /\ name # None /\ height # None /\ weight # None /\ gender # None

----------------------------------------------------------------------------
(* Termination of download_avatar, checked under SpecDownloadFair *)

\* a download_avatar call that is over, and the outcomes that describe it
DownloadOver == op = "download_avatar" /\ pc = "done"
OutcomesOfCall ==
    {o \in {"DOWNLOADED", "FAILED", "TIMEOUT", "FAULT", "REFUSED"} :
        \/ /\ o = "DOWNLOADED"
           /\ result.kind = "return" /\ result.value = Some(args.filename)
        \/ /\ o = "FAILED"
           /\ result.kind = "raise" /\ result.exc = "APIError"
           /\ result.state \in {"FAILED", "ERROR"}
        \/ /\ o = "TIMEOUT"
           /\ result.kind = "raise" /\ result.exc = "TimeoutError"
        \/ /\ o = "FAULT" /\ result.kind = "raise" /\ net # <<>>
           /\ \/ result.exc \in {"AuthenticationError", "ResourceNotFoundError",
                                 "ConnectionError", "HTTPError"}
              \/ result.exc = "APIError" /\ result.state = ""
        \/ /\ o = "REFUSED" /\ net = <<>>
           /\ result.kind = "raise" /\ result.exc = "ValidationError"}
\* the call is over in exactly one outcome, one of kinds
EndsIn(kinds) ==
    DownloadOver =>
        Cardinality(OutcomesOfCall) = 1 /\ OutcomesOfCall \subseteq kinds
\* the file is written at most once, and only in the outcome DOWNLOADED
WrittenOnce ==
    op = "download_avatar" =>
        /\ Len(writes) <= 1
        /\ Len(writes) = 1 => (DownloadOver /\ OutcomesOfCall = {"DOWNLOADED"})
\* no step of the call changes the attributes or the identifier
EntityKept ==
    [][op' = "download_avatar" =>
          UNCHANGED <<name, height, weight, gender, avatar_id>>]_vars
\* the loop ends
LoopEnds == (op = "download_avatar" /\ pc = "polling") ~> DownloadOver

\* C28 as claimed: download_avatar always terminates, in exactly one of
\* DOWNLOADED, FAILED (APIError), TIMEOUT (TimeoutError) or a download or
\* transport fault; the file is written at most once and only under
\* DOWNLOADED; name, height, weight, gender and avatar_id are unchanged.
C28_AsClaimed ==
    /\ [](EndsIn({"DOWNLOADED", "FAILED", "TIMEOUT", "FAULT"}))
    /\ []WrittenOnce
    /\ EntityKept
    /\ LoopEnds

\* C28 amended: as claimed, with a fifth outcome: a call that has no
\* identifier to use ends in ValidationError before any request.
C28_Terminates ==
    /\ [](EndsIn({"DOWNLOADED", "FAILED", "TIMEOUT", "FAULT", "REFUSED"}))
    /\ []WrittenOnce
    /\ EntityKept
    /\ LoopEnds

\* a call of two polls that ran into the timeout, nothing written
C28_Witness ==
    /\ DownloadOver /\ OutcomesOfCall = {"TIMEOUT"}
    /\ args.max_retries = 2 /\ Len(polls) = 2 /\ writes = <<>>
    /\ name = Some("Emma") /\ avatar_id = Some("a2")

====
